---- MODULE Spec2Model ----
(***************************************************************************)
(* The object-detection front end.  Review Hub of frontend/script.js (lines *)
(* 439-574): the review queue, the cursor, the review controls and the      *)
(* requests in flight to the review backend.  Detection dashboard of        *)
(* frontend/script.js (lines 210-437) and its earlier version unnamed/      *)
(* part_001: file selection, client-side resize, the /predict request and   *)
(* the overlay drawn on the canvas.  One action per event handler or        *)
(* awaited response.                                                        *)
(***************************************************************************)
EXTENDS Integers, Sequences, FiniteSets, Bags, TLC

(* ------------------------------ bounds --------------------------------- *)
\* longest queue the backend returns in one page
MaxQueue == 2
\* requests to the review backend (queue fetches and submissions) in flight at one time
MaxInFlight == 2
\* no decision or Next click is made once the cursor is this large
MaxCursor == 3
\* longest run of events the log keeps before it is closed
MaxHist == 2 + 3 * MaxQueue

(* --------------------------- backend data ------------------------------ *)
\* paths the review backend can list, in its listing order
ItemNames == <<"a.jpg", "b.jpg", "unverified/c.jpg">>

\* the pages /list-unverified can answer with: a run of at most MaxQueue paths
QueueChoices ==
    {<<>>} \cup { SubSeq(ItemNames, ij[1], ij[2]) :
                    ij \in { x \in (1..Len(ItemNames)) \X (1..Len(ItemNames)) :
                               x[2] >= x[1] /\ x[2] - x[1] + 1 <= MaxQueue } }

\* values of the correctLabelSelect element
Labels == {"", "box"}

\* reviewQueue[currentReviewIndex] in JavaScript: undefined out of range
Undefined == "undefined"
QueueAt(q, i) == IF i >= 0 /\ i < Len(q) THEN q[i + 1] ELSE Undefined

\* path.split('/').pop()
Basename(p) ==
    CASE p = "a.jpg" -> "a.jpg"
      [] p = "b.jpg" -> "b.jpg"
      [] p = "unverified/c.jpg" -> "c.jpg"
      [] OTHER -> p

\* texts written to reviewFilename
TextLoading == "Loading data..."
TextNoImages == "No images found for review."
TextLoadError == "Error loading data."
TextAllReviewed == "All loaded images reviewed!"

VARIABLES
    tab,                    \* which view is shown: "dashboard" or "review"
    reviewQueue,            \* let reviewQueue
    currentReviewIndex,     \* let currentReviewIndex
    reviewFilename,         \* reviewFilename.textContent
    reviewImage,            \* path shown by reviewImage.src ("" when cleared)
    btnVerifyDisabled,      \* btnVerify.disabled
    btnWrongDisabled,       \* btnWrong.disabled
    correctionPanelHidden,  \* correctionPanel has class hidden
    loads,                  \* number of /list-unverified requests in flight
    reqs,                   \* the bag of /submit-review requests in flight
    decided,                \* per position of reviewQueue, the number of requests
                            \* issued there that the backend answered with success
    hist                    \* log of the events so far, closed (Off) by a second
                            \* activation, a failed queue fetch, a Next click, its
                            \* length, or the event after a failed submission

vars == <<tab, reviewQueue, currentReviewIndex, reviewFilename, reviewImage,
          btnVerifyDisabled, btnWrongDisabled, correctionPanelHidden,
          loads, reqs, decided, hist>>

dom == <<reviewFilename, reviewImage, btnVerifyDisabled, btnWrongDisabled,
         correctionPanelHidden>>

VARIABLES
    selectedFile,           \* let selectedFile (NoFile for null)
    dropzoneHidden,         \* dropzone has class hidden
    analyzeHidden,          \* the analyze control (.analysis-controls / analyzeBtn) is hidden
    resultsAreaHidden,      \* resultsArea has class hidden
    loaderHidden,           \* loader has class hidden
    srcLoading,             \* the file sourceImage is loading (NoFile when none)
    sourceImage,            \* naturalWidth and naturalHeight of sourceImage
    canvasWidth,            \* width of the detection canvas
    canvasHeight,           \* height of the detection canvas
    uploads,                \* the bag of upload attempts between image load and response
    overlay,                \* the rectangles stroked on the canvas since it was last cleared
    detectionCount,         \* detectionCount.textContent
    avgConf,                \* avgConf.textContent before its % sign, in tenths of a percent
    lastEvent               \* the dashboard handler that ran last

dash == <<selectedFile, dropzoneHidden, analyzeHidden, resultsAreaHidden, loaderHidden,
          srcLoading, sourceImage, canvasWidth, canvasHeight, uploads, overlay,
          detectionCount, avgConf, lastEvent>>

allvars == <<vars, dash>>

\* null in the place of a File
NoFile == [type |-> "null", w |-> 0, h |-> 0, size |-> 0]

\* a canvas element is 300 x 150 until its width and height are assigned
DefaultCanvas == <<300, 150>>

\* the dashboard as the page shows it before any file is chosen
DashboardOpen ==
    /\ selectedFile = NoFile
    /\ dropzoneHidden = FALSE
    /\ analyzeHidden = FALSE
    /\ resultsAreaHidden = TRUE
    /\ loaderHidden = TRUE
    /\ srcLoading = NoFile
    /\ sourceImage = [naturalWidth |-> 0, naturalHeight |-> 0]
    /\ canvasWidth = DefaultCanvas[1]
    /\ canvasHeight = DefaultCanvas[2]
    /\ uploads = EmptyBag
    /\ overlay = <<>>
    /\ detectionCount = 0
    /\ avgConf = 0
    /\ lastEvent = "open"

(* ------------------------------ event log ------------------------------ *)
Off == <<"off">>
Closed ==
    \/ hist = Off
    \/ Len(hist) >= MaxHist
    \/ (hist # <<>> /\ hist[Len(hist)] = "failed")
Log(e) == IF Closed THEN Off ELSE Append(hist, e)

\* The page opens on the dashboard with no queue loaded.  The review controls
\* start as showReviewImage() resets them ("Reset UI"): the correction panel
\* hidden, Verify and Wrong enabled.
Init ==
    /\ tab = "dashboard"
    /\ reviewQueue = <<>>
    /\ currentReviewIndex = 0
    /\ reviewFilename = ""
    /\ reviewImage = ""
    /\ btnVerifyDisabled = FALSE
    /\ btnWrongDisabled = FALSE
    /\ correctionPanelHidden = TRUE
    /\ loads = 0
    /\ reqs = EmptyBag
    /\ decided = <<>>
    /\ hist = <<>>
    /\ DashboardOpen

(* ---------------------------- showReviewImage -------------------------- *)
\* showReviewImage() run with reviewQueue = q and currentReviewIndex = i
ShowReviewImage(q, i) ==
    IF i >= Len(q)
    THEN /\ reviewFilename' = TextAllReviewed
         /\ reviewImage' = ""
         /\ btnVerifyDisabled' = TRUE
         /\ btnWrongDisabled' = TRUE
         /\ UNCHANGED correctionPanelHidden
    ELSE /\ reviewFilename' = Basename(q[i + 1])
         /\ reviewImage' = q[i + 1]
         /\ correctionPanelHidden' = TRUE
         /\ btnVerifyDisabled' = FALSE
         /\ btnWrongDisabled' = FALSE

(* ------------------------------ tab switching -------------------------- *)
NavDashboardClick ==
    /\ tab' = "dashboard"
    /\ UNCHANGED <<reviewQueue, currentReviewIndex, dom, loads, reqs, decided, hist>>
    /\ UNCHANGED dash

\* navReview click: switchTab('review'); loadReviewData() up to its first await
NavReviewClick ==
    /\ loads + BagCardinality(reqs) < MaxInFlight
    /\ tab' = "review"
    /\ reviewFilename' = TextLoading
    /\ loads' = loads + 1
    /\ hist' = IF hist = <<>> THEN <<"activate">> ELSE Off
    /\ UNCHANGED <<reviewQueue, currentReviewIndex, reviewImage, btnVerifyDisabled,
                   btnWrongDisabled, correctionPanelHidden, reqs, decided>>
    /\ UNCHANGED dash

(* ------------------------------ loadReviewData ------------------------- *)
\* the requests still in flight when the queue is replaced were issued for the old one
RECURSIVE Copies(_, _)
\* the number of requests of bag rs that are in the set S
Copies(rs, S) ==
    IF S = {} THEN 0
    ELSE LET x == CHOOSE y \in S : TRUE
         IN  rs[x] + Copies(rs, S \ {x})

Outdated(rs) ==
    LET was(y) == {x \in BagToSet(rs) : [x EXCEPT !.old = TRUE] = y}
    IN  [y \in {[x EXCEPT !.old = TRUE] : x \in BagToSet(rs)} |-> Copies(rs, was(y))]

\* a /list-unverified fetch resolves with data.images = q
LoadSuccess(q) ==
    /\ loads > 0
    /\ loads' = loads - 1
    /\ hist' = Log("loaded")
    /\ IF Len(q) > 0
       THEN /\ reviewQueue' = q
            /\ currentReviewIndex' = 0
            /\ reqs' = Outdated(reqs)
            /\ decided' = [k \in 1..Len(q) |-> 0]
            /\ ShowReviewImage(q, 0)
       ELSE /\ reviewFilename' = TextNoImages
            /\ reviewImage' = ""
            /\ btnVerifyDisabled' = TRUE
            /\ btnWrongDisabled' = TRUE
            /\ UNCHANGED <<reviewQueue, currentReviewIndex, reqs, decided,
                           correctionPanelHidden>>
    /\ UNCHANGED tab
    /\ UNCHANGED dash

\* a /list-unverified fetch, or response.json(), throws
LoadFail ==
    /\ loads > 0
    /\ loads' = loads - 1
    /\ hist' = Off
    /\ reviewFilename' = TextLoadError
    /\ UNCHANGED <<tab, reviewQueue, currentReviewIndex, reviewImage,
                   btnVerifyDisabled, btnWrongDisabled, correctionPanelHidden, reqs,
                   decided>>
    /\ UNCHANGED dash

(* ------------------------------ submitReview --------------------------- *)
\* submitReview(decision, label) up to its first await
SubmitReview(decision, label) ==
    /\ loads + BagCardinality(reqs) < MaxInFlight
    /\ currentReviewIndex < MaxCursor
    /\ reqs' = reqs (+) SetToBag({[path     |-> QueueAt(reviewQueue, currentReviewIndex),
                                   decision |-> decision,
                                   label    |-> label,
                                   old      |-> FALSE]})
    /\ btnVerifyDisabled' = TRUE
    /\ UNCHANGED <<tab, reviewQueue, currentReviewIndex, reviewFilename, reviewImage,
                   btnWrongDisabled, correctionPanelHidden, loads, decided>>

InFlight == BagToSet(reqs)

\* a request leaves reqs when its response is handled
Remove(rs, x) == rs (-) SetToBag({x})

\* the backend recorded the decision of request x: counted at the position of its
\* path when x was issued for the queue now loaded
Recorded(x) ==
    IF ~x.old /\ \E i \in 1..Len(reviewQueue) : reviewQueue[i] = x.path
    THEN [decided EXCEPT ![CHOOSE i \in 1..Len(reviewQueue) : reviewQueue[i] = x.path] = @ + 1]
    ELSE decided

\* a success handler that re-enables btnVerify after showReviewImage(), as a
\* finally block would
SubmitSuccess_ReenablesVerify(r) ==
    /\ r \in InFlight
    /\ reqs' = Remove(reqs, r)
    /\ decided' = Recorded(r)
    /\ hist' = Log("ok")
    /\ currentReviewIndex' = currentReviewIndex + 1
    /\ btnVerifyDisabled' = FALSE
    /\ IF currentReviewIndex + 1 >= Len(reviewQueue)
       THEN /\ reviewFilename' = TextAllReviewed
            /\ reviewImage' = ""
            /\ btnWrongDisabled' = TRUE
            /\ UNCHANGED correctionPanelHidden
       ELSE /\ reviewFilename' = Basename(reviewQueue[currentReviewIndex + 2])
            /\ reviewImage' = reviewQueue[currentReviewIndex + 2]
            /\ correctionPanelHidden' = TRUE
            /\ btnWrongDisabled' = FALSE
    /\ UNCHANGED <<tab, reviewQueue, loads>>
    /\ UNCHANGED dash

\* a success handler that forgets currentReviewIndex++
SubmitSuccess_StaysOnItem(r) ==
    /\ r \in InFlight
    /\ reqs' = Remove(reqs, r)
    /\ decided' = Recorded(r)
    /\ hist' = Log("ok")
    /\ ShowReviewImage(reviewQueue, currentReviewIndex)
    /\ UNCHANGED <<tab, reviewQueue, currentReviewIndex, loads>>
    /\ UNCHANGED dash

\* the response of request r carries status 'success'
SubmitSuccess(r) ==
    /\ r \in InFlight
    /\ reqs' = Remove(reqs, r)
    /\ decided' = Recorded(r)
    /\ hist' = Log("ok")
    /\ currentReviewIndex' = currentReviewIndex + 1
    /\ ShowReviewImage(reviewQueue, currentReviewIndex + 1)
    /\ UNCHANGED <<tab, reviewQueue, loads>>
    /\ UNCHANGED dash

\* a failure handler that forgets btnVerify.disabled = false
SubmitFailed_KeepsDisabled(r) ==
    /\ r \in InFlight
    /\ reqs' = Remove(reqs, r)
    /\ hist' = Log("failed")
    /\ UNCHANGED <<tab, reviewQueue, currentReviewIndex, reviewFilename, reviewImage,
                   btnVerifyDisabled, btnWrongDisabled, correctionPanelHidden, loads,
                   decided>>
    /\ UNCHANGED dash

\* the response of request r carries another status, or fetch / json() throws
SubmitFailed(r) ==
    /\ r \in InFlight
    /\ reqs' = Remove(reqs, r)
    /\ hist' = Log("failed")
    /\ btnVerifyDisabled' = FALSE
    /\ UNCHANGED <<tab, reviewQueue, currentReviewIndex, reviewFilename, reviewImage,
                   btnWrongDisabled, correctionPanelHidden, loads, decided>>
    /\ UNCHANGED dash

(* ------------------------------ review controls ------------------------ *)
\* the browser dispatches a click only to a shown, enabled control
VerifyClickable == tab = "review" /\ ~btnVerifyDisabled
WrongClickable == tab = "review" /\ ~btnWrongDisabled
SubmitCorrectionClickable == tab = "review" /\ ~correctionPanelHidden
NextClickable == tab = "review"

BtnVerifyClick ==
    /\ VerifyClickable
    /\ SubmitReview("verified", "null")
    /\ hist' = Log("verify")
    /\ UNCHANGED dash

\* a flag handler that also posts the flag to the review backend
BtnWrongClick_PostsFlag ==
    /\ WrongClickable
    /\ loads + BagCardinality(reqs) < MaxInFlight
    /\ correctionPanelHidden' = FALSE
    /\ hist' = Log("flag")
    /\ reqs' = reqs (+) SetToBag({[path     |-> QueueAt(reviewQueue, currentReviewIndex),
                                   decision |-> "flag",
                                   label    |-> "null",
                                   old      |-> FALSE]})
    /\ UNCHANGED <<tab, reviewQueue, currentReviewIndex, reviewFilename, reviewImage,
                   btnVerifyDisabled, btnWrongDisabled, loads, decided>>
    /\ UNCHANGED dash

\* a flag handler that forgets to reveal the correction panel
BtnWrongClick_KeepsPanelHidden ==
    /\ WrongClickable
    /\ hist' = Log("flag")
    /\ UNCHANGED <<tab, reviewQueue, currentReviewIndex, reviewFilename, reviewImage,
                   btnVerifyDisabled, btnWrongDisabled, correctionPanelHidden, loads,
                   reqs, decided>>
    /\ UNCHANGED dash

BtnWrongClick ==
    /\ WrongClickable
    /\ correctionPanelHidden' = FALSE
    /\ hist' = Log("flag")
    /\ UNCHANGED <<tab, reviewQueue, currentReviewIndex, reviewFilename, reviewImage,
                   btnVerifyDisabled, btnWrongDisabled, loads, reqs, decided>>
    /\ UNCHANGED dash

BtnSubmitCorrectionClick(label) ==
    /\ SubmitCorrectionClickable
    /\ SubmitReview("correction", label)
    /\ hist' = Log("correction")
    /\ UNCHANGED dash

\* a skip handler that wraps around to the first item at the end of the queue
BtnNextImageClick_Wraps ==
    /\ NextClickable
    /\ currentReviewIndex < MaxCursor
    /\ currentReviewIndex' =
           IF currentReviewIndex + 1 >= Len(reviewQueue) THEN 0 ELSE currentReviewIndex + 1
    /\ hist' = Off
    /\ ShowReviewImage(reviewQueue, currentReviewIndex')
    /\ UNCHANGED <<tab, reviewQueue, loads, reqs, decided>>
    /\ UNCHANGED dash

BtnNextImageClick ==
    /\ NextClickable
    /\ currentReviewIndex < MaxCursor
    /\ currentReviewIndex' = currentReviewIndex + 1
    /\ hist' = Off
    /\ ShowReviewImage(reviewQueue, currentReviewIndex + 1)
    /\ UNCHANGED <<tab, reviewQueue, loads, reqs, decided>>
    /\ UNCHANGED dash

Next ==
    \/ NavDashboardClick
    \/ NavReviewClick
    \/ \E q \in QueueChoices : LoadSuccess(q)
    \/ LoadFail
    \/ BtnVerifyClick
    \/ BtnWrongClick
    \/ \E label \in Labels : BtnSubmitCorrectionClick(label)
    \/ BtnNextImageClick
    \/ \E r \in InFlight : SubmitSuccess(r)
    \/ \E r \in InFlight : SubmitFailed(r)

Spec == Init /\ [][Next]_allvars

(* ===================== the states of the review session ================ *)
\* the item under the cursor (Undefined when there is none)
CurrentItem == QueueAt(reviewQueue, currentReviewIndex)

\* the session shows item p and waits for a decision on it
AwaitingDecision(p) ==
    /\ reviewFilename = Basename(p)
    /\ reviewImage = p
    /\ correctionPanelHidden
    /\ ~btnVerifyDisabled
    /\ ~btnWrongDisabled

\* the session shows item p with the correction input revealed
CorrectionPending(p) ==
    /\ reviewFilename = Basename(p)
    /\ reviewImage = p
    /\ ~correctionPanelHidden
    /\ ~btnVerifyDisabled
    /\ ~btnWrongDisabled

\* the queue is used up, or the backend listed nothing
Exhausted == reviewFilename \in {TextAllReviewed, TextNoImages}

\* the queue fetch failed
LoadError == reviewFilename = TextLoadError

\* the session shows an item of the queue
HasCurrent == reviewFilename \in {Basename(ItemNames[k]) : k \in 1..Len(ItemNames)}

\* requests in flight that were issued for position i of the queue now loaded
Pending(i) ==
    Copies(reqs, {x \in InFlight : ~x.old /\ x.path = reviewQueue[i]})

\* request r was issued for an item of the queue now loaded that the cursor has
\* since moved past
NavigatedPast(r) ==
    /\ ~r.old
    /\ \E i \in 1..Len(reviewQueue) :
          reviewQueue[i] = r.path /\ i - 1 < currentReviewIndex

\* the log of activate() followed by n successful verify()
RECURSIVE VerifiedRun(_)
VerifiedRun(n) ==
    IF n = 0 THEN <<"activate", "loaded">>
    ELSE VerifiedRun(n - 1) \o <<"verify", "ok">>

(* ================================ claims =============================== *)

\* C1: in every reachable state 0 <= currentReviewIndex <= len(reviewQueue).
C1_CursorInRange ==
    currentReviewIndex >= 0 /\ currentReviewIndex <= Len(reviewQueue)

\* C2: a submit-review response that completes after the user navigated past the
\* item it was issued for is discarded: handling it neither advances the cursor
\* nor changes the controls of the new current item.
C2_StaleResponseDiscarded ==
    [][\A r \in InFlight :
          (NavigatedPast(r) /\ reqs' = Remove(reqs, r))
              => /\ currentReviewIndex' = currentReviewIndex
                 /\ UNCHANGED <<reviewFilename, reviewImage, btnVerifyDisabled,
                                btnWrongDisabled, correctionPanelHidden>>]_vars

\* C3: at every moment at most one submit-review request is in flight.
C3_OneSubmitInFlight == BagCardinality(reqs) <= 1

\* C4: handling a failed submit-review response leaves the queue and the cursor
\* unchanged, leaves the session on the same item in the same state (the item shown
\* and the correction panel are as they were), and re-enables the verify control that
\* the submission had disabled; so a verify() that fails right away leaves the
\* session in AwaitingDecision on the same item, and a submitCorrection() that fails
\* right away leaves it in CorrectionPending on the same item with its control usable.
C4_FailedSubmitKeepsItem ==
    /\ [](Len(reviewQueue) > 0 =>
            /\ hist = <<"activate", "loaded", "verify", "failed">>
                  => currentReviewIndex = 0 /\ AwaitingDecision(reviewQueue[1])
            /\ hist = <<"activate", "loaded", "flag", "correction", "failed">>
                  => /\ currentReviewIndex = 0
                     /\ CorrectionPending(reviewQueue[1])
                     /\ (tab = "review" => SubmitCorrectionClickable))
    /\ [][\A r \in InFlight :
             SubmitFailed(r)
                 => /\ currentReviewIndex' = currentReviewIndex
                    /\ reviewQueue' = reviewQueue
                    /\ CurrentItem' = CurrentItem
                    /\ UNCHANGED <<reviewFilename, reviewImage, correctionPanelHidden,
                                   btnWrongDisabled, decided>>
                    /\ SubmitCorrectionClickable' = SubmitCorrectionClickable
                    /\ ~btnVerifyDisabled']_vars

\* C4 witness: a submitCorrection() on the first item failed and the session is
\* back in CorrectionPending on it.
C4_Witness ==
    /\ hist = <<"activate", "loaded", "flag", "correction", "failed">>
    /\ currentReviewIndex = 0
    /\ Len(reviewQueue) > 0
    /\ CorrectionPending(reviewQueue[1])

\* C5: at most one decision is submitted for each cursor position before the
\* cursor advances past it (a submission that failed does not count).
C5_OneDecisionPerPosition ==
    \A i \in 1..Len(reviewQueue) : decided[i] + Pending(i) <= 1

\* C6: every item at an index below the cursor has exactly one recorded decision.
C6_DecisionBeforeAdvance ==
    \A i \in 1..Len(reviewQueue) : i <= currentReviewIndex => decided[i] = 1

\* C7: a successful submit-review response advances the cursor by exactly 1;
\* afterwards the session awaits a decision on queue[cursor] if cursor < len(queue),
\* and otherwise is Exhausted with verify and flag disabled and no item shown.
C7_SuccessAdvances ==
    [][\A r \in InFlight :
          SubmitSuccess(r)
              => /\ currentReviewIndex' = currentReviewIndex + 1
                 /\ reviewQueue' = reviewQueue
                 /\ IF currentReviewIndex' < Len(reviewQueue')
                    THEN AwaitingDecision(CurrentItem)'
                    ELSE /\ Exhausted'
                         /\ reviewImage' = ""
                         /\ btnVerifyDisabled'
                         /\ btnWrongDisabled']_vars

\* C7 witness: the first of two items was verified and the second is now awaited.
C7_Witness ==
    /\ hist = <<"activate", "loaded", "verify", "ok">>
    /\ Len(reviewQueue) = 2
    /\ currentReviewIndex = 1
    /\ AwaitingDecision(reviewQueue[2])

\* C8: activate() returning n items followed by n successful verify() reaches
\* Exhausted, where verify cannot be clicked: no request is in flight and none
\* can be issued by it.
C8_VerifyAllExhausts ==
    \A n \in 1..MaxQueue :
        (Len(reviewQueue) = n /\ hist = VerifiedRun(n))
            => /\ Exhausted
               /\ currentReviewIndex = n
               /\ reqs = EmptyBag
               /\ btnVerifyDisabled
               /\ ~VerifyClickable

\* C8 witness: both items of a two-item queue were verified.
C8_Witness == Len(reviewQueue) = 2 /\ hist = VerifiedRun(2)

\* C9: once Exhausted or LoadError is reached, no step other than a fresh
\* activation or a queue response issues a decision request or brings the session
\* back to a state with a current item.
C9_TerminalStates ==
    [][((Exhausted \/ LoadError) /\ loads' = loads)
          => /\ BagCardinality(reqs') <= BagCardinality(reqs)
             /\ ~HasCurrent']_vars

\* C10: when a queue response carries 0 items or the fetch fails, the session is
\* Exhausted or LoadError and verify, flag-incorrect and submit-correction are
\* all disabled.
C10_EmptyOrFailedLoadDisables ==
    [][(loads' = loads - 1 /\ (Exhausted' \/ LoadError') /\ reviewFilename' # TextAllReviewed)
          => /\ btnVerifyDisabled'
             /\ btnWrongDisabled'
             /\ correctionPanelHidden']_vars

\* C11: every activate() discards the prior queue and cursor.  (a) When the queue
\* response of a re-activation carries no items or fails, the queue and the cursor
\* of the previous session are gone (empty queue, cursor 0); (b) the response of a
\* submit-review request issued in a previous session changes neither the queue,
\* nor the cursor, nor the decisions recorded for the new session.
C11_ActivationDiscardsPrior ==
    [][/\ (/\ loads' = loads - 1
           /\ Len(reviewQueue) > 0
           /\ reviewFilename' \in {TextNoImages, TextLoadError})
              => (reviewQueue' = <<>> /\ currentReviewIndex' = 0)
       /\ \A r \in InFlight :
             (r.old /\ reqs' = Remove(reqs, r))
                 => UNCHANGED <<reviewQueue, currentReviewIndex, decided>>]_vars

\* C12: within one session the cursor never decreases: the only step that lowers
\* currentReviewIndex is the queue response of an activation, which installs a
\* non-empty queue and sets the cursor to 0; every other step leaves it or raises it.
C12_CursorNeverDecreases ==
    [][currentReviewIndex' < currentReviewIndex
          => /\ loads' = loads - 1
             /\ Len(reviewQueue') > 0
             /\ currentReviewIndex' = 0]_vars

\* C12 witness: inside one session the cursor has climbed to its cap, past the end
\* of a loaded queue, with no activation outstanding.
C12_Witness ==
    /\ loads = 0
    /\ Len(reviewQueue) > 0
    /\ currentReviewIndex = MaxCursor

\* C13: once flagIncorrect() has revealed the correction panel for the current
\* item (CorrectionPending), no step submits a Verified decision.
C13_VerifyOnlyWhenAwaiting ==
    [][(HasCurrent /\ ~correctionPanelHidden)
          => Copies(reqs', {x \in BagToSet(reqs') : x.decision = "verified"})
                <= Copies(reqs, {x \in InFlight : x.decision = "verified"})]_vars

\* C14: no submit-review request carries a correction with an empty label.
C14_EmptyLabelRejected ==
    \A x \in InFlight : x.decision = "correction" => x.label # ""

\* C15: end to end, with queue [a.jpg, b.jpg]: after activate() a.jpg is current
\* and awaited; after flagIncorrect() the session is CorrectionPending on a.jpg;
\* after a successful submitCorrection() the cursor is 1 and b.jpg is awaited;
\* after a successful verify() the session is Exhausted with the cursor at 2.
C15_EndToEnd ==
    reviewQueue = <<"a.jpg", "b.jpg">> =>
        /\ hist = <<"activate", "loaded">>
              => /\ currentReviewIndex = 0
                 /\ CurrentItem = "a.jpg"
                 /\ AwaitingDecision("a.jpg")
        /\ hist = <<"activate", "loaded", "flag">>
              => /\ currentReviewIndex = 0
                 /\ CorrectionPending("a.jpg")
        /\ hist = <<"activate", "loaded", "flag", "correction", "ok">>
              => /\ currentReviewIndex = 1
                 /\ CurrentItem = "b.jpg"
                 /\ AwaitingDecision("b.jpg")
                 /\ decided = <<1, 0>>
        /\ hist = <<"activate", "loaded", "flag", "correction", "ok", "verify", "ok">>
              => /\ currentReviewIndex = 2
                 /\ CurrentItem = Undefined
                 /\ Exhausted
                 /\ decided = <<1, 1>>

\* C15 witness: the scenario ran to its end.
C15_Witness ==
    /\ reviewQueue = <<"a.jpg", "b.jpg">>
    /\ hist = <<"activate", "loaded", "flag", "correction", "ok", "verify", "ok">>
    /\ Exhausted

(* ======================= detection dashboard =========================== *)
(* frontend/script.js lines 210-437: handleFiles, uploadImage, resizeImage, *)
(* drawDetections and the reset button.  The review variables stay as the   *)
(* page opened them.                                                        *)

(* ------------------------------ bounds --------------------------------- *)
\* upload attempts under way at one time
MaxUploads == 2
\* most detections in one /predict response
MaxDetections == 2
\* normalized coordinates are the multiples k / Grid of the unit interval
Grid == 4

(* ------------------------------ inputs --------------------------------- *)
\* 1024 * 1024 bytes
MiB == 1024 * 1024
\* the width uploadImage resizes to
TargetWidth == 640

\* the files a user can drop: type, pixel size and byte size
FileChoices ==
    { [type |-> "image/jpeg", w |-> 320, h |-> 240, size |-> MiB - 1],
      [type |-> "image/jpeg", w |-> 640, h |-> 480, size |-> MiB],
      [type |-> "image/jpeg", w |-> 640, h |-> 480, size |-> MiB + 1],
      [type |-> "image/jpeg", w |-> 1280, h |-> 481, size |-> MiB - 1],
      [type |-> "image/png", w |-> 400, h |-> 1200, size |-> MiB + 1],
      [type |-> "text/plain", w |-> 0, h |-> 0, size |-> 1] }

\* detections the backend can report, in the order it lists them: box =
\* <<x1, y1, x2, y2>> in units of 1 / Grid, confidence in percent.  The last one
\* has its corners swapped.
DetectionChoices ==
    << [class |-> "person", confidence |-> 90, box |-> <<1, 1, 3, 2>>],
       [class |-> "car", confidence |-> 55, box |-> <<0, 0, 4, 4>>],
       [class |-> "person", confidence |-> 40, box |-> <<3, 2, 1, 1>>] >>

\* the k-th smallest element of the set S of numbers
Nth(S, k) == CHOOSE n \in S : Cardinality({m \in S : m < n}) = k - 1

\* data.detections of the responses /predict can answer with: at most
\* MaxDetections of the detections above
Responses ==
    { [k \in 1..Cardinality(S) |-> DetectionChoices[Nth(S, k)]] :
        S \in { T \in SUBSET (1..Len(DetectionChoices)) : Cardinality(T) <= MaxDetections } }

\* Math.round of the quotient a / b of two positive integers
Round(a, b) == (2 * a + b) \div (2 * b)

(* ---------------------------- resizeImage ------------------------------ *)
\* the condition under which uploadImage calls resizeImage
NeedsResize(f) == f.size > MiB \/ f.w > TargetWidth

\* a resizeImage that scales the height but leaves the width as it was
ResizeImage_KeepsWidth(f, maxWidth, blob) ==
    IF maxWidth >= f.w
    THEN [kind |-> "original", w |-> f.w, h |-> f.h]
    ELSE IF blob
         THEN [kind |-> "resized", w |-> f.w, h |-> (f.h * maxWidth) \div f.w]
         ELSE [kind |-> "null", w |-> 0, h |-> 0]

\* the payload resizeImage(f, maxWidth) resolves with; blob is FALSE when toBlob
\* hands its callback null, and new File([null], ...) then holds the text "null"
ResizeImage(f, maxWidth, blob) ==
    IF maxWidth >= f.w
    THEN [kind |-> "original", w |-> f.w, h |-> f.h]
    ELSE IF blob
         THEN [kind |-> "resized", w |-> maxWidth, h |-> (f.h * maxWidth) \div f.w]
         ELSE [kind |-> "null", w |-> 0, h |-> 0]

(* ---------------------------- drawDetections --------------------------- *)
\* a rectangle passed to strokeRect: corner (x / dx, y / dy), size (w / dx, h / dy)
\* a drawDetections that takes x2 and y2 for the width and the height
BoxRect_CornerAsSize(box, imgWidth, imgHeight) ==
    [x |-> box[1] * imgWidth, y |-> box[2] * imgHeight,
     w |-> box[3] * imgWidth, h |-> box[4] * imgHeight,
     dx |-> Grid, dy |-> Grid]

\* boxX, boxY, boxW, boxH of drawDetections for a normalized box
BoxRect(box, imgWidth, imgHeight) ==
    [x |-> box[1] * imgWidth, y |-> box[2] * imgHeight,
     w |-> (box[3] - box[1]) * imgWidth, h |-> (box[4] - box[2]) * imgHeight,
     dx |-> Grid, dy |-> Grid]

\* strokeRect draws nothing when an argument is not finite
Finite(r) == r.dx # 0 /\ r.dy # 0

\* scale = Math.max(1, imgWidth / 1000), in thousandths
Scale(imgWidth) == IF imgWidth > 1000 THEN imgWidth ELSE 1000

\* the label background: fillRect(boxX, labelY, textWidth, textHeight) with
\* textHeight = fontSize + padding * 2, fontSize = Math.round(24 * scale) and
\* padding = 8 * scale; top edge y / dy and height h / dy
LabelRect(box, imgWidth, imgHeight) ==
    LET fontSize == Round(24 * Scale(imgWidth), 1000)
        textHeight == (fontSize * 1000 + 2 * 8 * Scale(imgWidth)) * Grid
        boxY == box[2] * imgHeight * 1000
        labelY == boxY - textHeight
    IN  [y |-> IF labelY < 0 THEN boxY ELSE labelY, h |-> textHeight, dy |-> Grid * 1000]

\* the hues Math.random() * 360 can give
Hues == {0, 180}

\* the hues one forEach can draw, one Math.random() for each detection
Colorings(detections) == [1..Len(detections) -> Hues]

\* a hue that is not told apart from any other
AnyHue == "hsl"

\* the hues of one forEach when hues are not told apart
Untold(detections) == [i \in 1..Len(detections) |-> AnyHue]

\* what detections.forEach strokes and fills on a canvas of the given size, in order
Strokes(detections, hues, imgWidth, imgHeight) ==
    [i \in 1..Len(detections) |->
        [det |-> detections[i], color |-> hues[i],
         rect |-> BoxRect(detections[i].box, imgWidth, imgHeight),
         label |-> LabelRect(detections[i].box, imgWidth, imgHeight)]]

\* detections.reduce((acc, d) => acc + d.confidence, 0), in percent
RECURSIVE SumConfidence(_)
SumConfidence(detections) ==
    IF detections = <<>>
    THEN 0
    ELSE Head(detections).confidence + SumConfidence(Tail(detections))

\* avgConf of drawDetections: (sum / length * 100).toFixed(1), or 0 for no detection
AvgConf(detections) ==
    IF Len(detections) > 0
    THEN Round(SumConfidence(detections) * 10, Len(detections))
    ELSE 0

\* attempts under way: the image being loaded and the attempts past it
UnderWay == BagCardinality(uploads) + (IF srcLoading = NoFile THEN 0 ELSE 1)

Attempts == BagToSet(uploads)

(* ------------------------------ handlers ------------------------------- *)
\* a drop on the dropzone or a change of fileInput with files[0] = f
HandleFiles(f) ==
    /\ ~dropzoneHidden
    /\ IF f.type \in {"image/jpeg", "image/png"}
       THEN selectedFile' = f
       ELSE UNCHANGED selectedFile
    /\ lastEvent' = "handleFiles"
    /\ UNCHANGED <<dropzoneHidden, analyzeHidden, resultsAreaHidden, loaderHidden,
                   srcLoading, sourceImage, canvasWidth, canvasHeight, uploads, overlay,
                   detectionCount, avgConf>>
    /\ UNCHANGED vars

\* analyzeBtn click: uploadImage(selectedFile) up to the load of sourceImage.
\* Assigning sourceImage.src drops the load of an earlier source.
AnalyzeBtnClick ==
    /\ ~analyzeHidden
    /\ selectedFile # NoFile
    /\ UnderWay < MaxUploads \/ srcLoading # NoFile
    /\ dropzoneHidden' = TRUE
    /\ analyzeHidden' = TRUE
    /\ resultsAreaHidden' = FALSE
    /\ loaderHidden' = FALSE
    /\ srcLoading' = selectedFile
    /\ lastEvent' = "uploadImage"
    /\ UNCHANGED <<selectedFile, sourceImage, canvasWidth, canvasHeight, uploads,
                   overlay, detectionCount, avgConf>>
    /\ UNCHANGED vars

\* sourceImage.onload: size and clear the canvas, then either await resizeImage or
\* post the file as it is
SourceImageOnload ==
    /\ srcLoading # NoFile
    /\ srcLoading' = NoFile
    /\ sourceImage' = [naturalWidth |-> srcLoading.w, naturalHeight |-> srcLoading.h]
    /\ canvasWidth' = srcLoading.w
    /\ canvasHeight' = srcLoading.h
    /\ overlay' = <<>>
    /\ uploads' = uploads (+) SetToBag({
            IF NeedsResize(srcLoading)
            THEN [file |-> srcLoading, stage |-> "resize",
                  sent |-> [kind |-> "none", w |-> 0, h |-> 0]]
            ELSE [file |-> srcLoading, stage |-> "predict",
                  sent |-> [kind |-> "original", w |-> srcLoading.w, h |-> srcLoading.h]]})
    /\ lastEvent' = "onload"
    /\ UNCHANGED <<selectedFile, dropzoneHidden, analyzeHidden, resultsAreaHidden,
                   loaderHidden, detectionCount, avgConf>>
    /\ UNCHANGED vars

\* await resizeImage(file, 640) resolves and the /predict request is posted
ResizeImageResolved(u, blob) ==
    /\ u \in Attempts
    /\ u.stage = "resize"
    /\ uploads' = Remove(uploads, u) (+) SetToBag({
            [file |-> u.file, stage |-> "predict",
             sent |-> ResizeImage(u.file, TargetWidth, blob)]})
    /\ lastEvent' = "resizeImage"
    /\ UNCHANGED <<selectedFile, dropzoneHidden, analyzeHidden, resultsAreaHidden,
                   loaderHidden, srcLoading, sourceImage, canvasWidth, canvasHeight,
                   overlay, detectionCount, avgConf>>
    /\ UNCHANGED vars

\* the /predict response of attempt u is ok with data.detections = detections:
\* drawDetections(data), Math.random() giving hues[i] for the i-th detection
PredictResponse(u, detections, hues) ==
    /\ u \in Attempts
    /\ u.stage = "predict"
    /\ uploads' = Remove(uploads, u)
    /\ loaderHidden' = TRUE
    /\ detectionCount' = Len(detections)
    /\ avgConf' = AvgConf(detections)
    /\ overlay' = overlay \o
                  SelectSeq(Strokes(detections, hues, canvasWidth, canvasHeight),
                            LAMBDA e : Finite(e.rect))
    /\ lastEvent' = "drawDetections"
    /\ UNCHANGED <<selectedFile, dropzoneHidden, analyzeHidden, resultsAreaHidden,
                   srcLoading, sourceImage, canvasWidth, canvasHeight>>
    /\ UNCHANGED vars

\* fetch rejects, the response is not ok, or json() throws: the catch block
PredictFailed(u) ==
    /\ u \in Attempts
    /\ u.stage = "predict"
    /\ uploads' = Remove(uploads, u)
    /\ loaderHidden' = TRUE
    /\ lastEvent' = "catch"
    /\ UNCHANGED <<selectedFile, dropzoneHidden, analyzeHidden, resultsAreaHidden,
                   srcLoading, sourceImage, canvasWidth, canvasHeight, overlay,
                   detectionCount, avgConf>>
    /\ UNCHANGED vars

\* resetBtn click
ResetBtnClick ==
    /\ ~resultsAreaHidden
    /\ resultsAreaHidden' = TRUE
    /\ analyzeHidden' = FALSE
    /\ dropzoneHidden' = FALSE
    /\ overlay' = <<>>
    /\ selectedFile' = NoFile
    /\ lastEvent' = "reset"
    /\ UNCHANGED <<loaderHidden, srcLoading, sourceImage, canvasWidth, canvasHeight,
                   uploads, detectionCount, avgConf>>
    /\ UNCHANGED vars

\* the dashboard with the hues of the boxes not told apart
DashboardNext ==
    \/ \E f \in FileChoices : HandleFiles(f)
    \/ AnalyzeBtnClick
    \/ SourceImageOnload
    \/ \E u \in Attempts, blob \in BOOLEAN : ResizeImageResolved(u, blob)
    \/ \E u \in Attempts, detections \in Responses :
          PredictResponse(u, detections, Untold(detections))
    \/ \E u \in Attempts : PredictFailed(u)
    \/ ResetBtnClick

Dashboard == Init /\ [][DashboardNext]_allvars

\* the dashboard with the hue of every box as Math.random() gave it
ColorsNext ==
    \/ \E f \in FileChoices : HandleFiles(f)
    \/ AnalyzeBtnClick
    \/ SourceImageOnload
    \/ \E u \in Attempts, blob \in BOOLEAN : ResizeImageResolved(u, blob)
    \/ \E u \in Attempts, detections \in Responses :
          \E hues \in Colorings(detections) : PredictResponse(u, detections, hues)
    \/ \E u \in Attempts : PredictFailed(u)
    \/ ResetBtnClick

Colors == Init /\ [][ColorsNext]_allvars

(* ------------------- the dashboard with failing loads ------------------ *)
\* sourceImage fires error instead of load (a file that does not decode): uploadImage
\* installs no onerror, so nothing follows
SourceImageOnerror ==
    /\ srcLoading # NoFile
    /\ srcLoading' = NoFile
    /\ sourceImage' = [naturalWidth |-> 0, naturalHeight |-> 0]
    /\ lastEvent' = "onerror"
    /\ UNCHANGED <<selectedFile, dropzoneHidden, analyzeHidden, resultsAreaHidden,
                   loaderHidden, canvasWidth, canvasHeight, uploads, overlay,
                   detectionCount, avgConf>>
    /\ UNCHANGED vars

\* the FileReader or the Image of resizeImage fires error: resizeImage installs no
\* onerror and its promise never settles, so the attempt goes no further
ResizeImageFailed(u) ==
    /\ u \in Attempts
    /\ u.stage = "resize"
    /\ uploads' = Remove(uploads, u)
    /\ lastEvent' = "resizeImage.onerror"
    /\ UNCHANGED <<selectedFile, dropzoneHidden, analyzeHidden, resultsAreaHidden,
                   loaderHidden, srcLoading, sourceImage, canvasWidth, canvasHeight,
                   overlay, detectionCount, avgConf>>
    /\ UNCHANGED vars

\* the events of an attempt, each ending well or with an error
ImageLoadEvent == SourceImageOnload \/ SourceImageOnerror
ResizeEvent ==
    \E u \in Attempts : ResizeImageFailed(u) \/ \E blob \in BOOLEAN : ResizeImageResolved(u, blob)
ResponseEvent ==
    \E u \in Attempts :
        PredictFailed(u) \/ \E detections \in Responses :
                                PredictResponse(u, detections, Untold(detections))

LoadingNext ==
    \/ \E f \in FileChoices : HandleFiles(f)
    \/ AnalyzeBtnClick
    \/ ImageLoadEvent
    \/ ResizeEvent
    \/ ResponseEvent
    \/ ResetBtnClick

\* the browser delivers every pending event; the user may stop at any time
Loading ==
    /\ Init
    /\ [][LoadingNext]_allvars
    /\ WF_allvars(ImageLoadEvent)
    /\ WF_allvars(ResizeEvent)
    /\ WF_allvars(ResponseEvent)

(* ====================== the earlier dashboard ========================== *)
(* unnamed/part_001: handleFiles, processImage, resizeImage, drawDetections *)
(* and the reset button of the version that posts a resized copy, shows the *)
(* original file and scales pixel boxes by display width / natural width.   *)

\* the default maxWidth of resizeImage
MaxWidth == 1024

\* the payload resizeImage(f) resolves with: always re-encoded, downsized when wider
\* than maxWidth; blob as in ResizeImage
Part001ResizeImage(f, maxWidth, blob) ==
    IF ~blob THEN [kind |-> "null", w |-> 0, h |-> 0]
    ELSE IF f.w > maxWidth
         THEN [kind |-> "resized", w |-> maxWidth, h |-> Round(f.h * maxWidth, f.w)]
         ELSE [kind |-> "resized", w |-> f.w, h |-> f.h]

\* a detection of DetectionChoices in pixels of an analyzed image of size (w, h)
InPixels(d, w, h) ==
    [d EXCEPT !.box = <<(d.box[1] * w) \div Grid, (d.box[2] * h) \div Grid,
                        (d.box[3] * w) \div Grid, (d.box[4] * h) \div Grid>>]

\* data.detections of the responses to an analyzed image of size (w, h)
PixelResponses(w, h) ==
    { [k \in DOMAIN r |-> InPixels(r[k], w, h)] : r \in Responses }

\* sourceImage.width and .height, the layout size of the image shown: nothing while
\* no image is loaded, else its natural size or half of it
DisplaySizes ==
    IF sourceImage.naturalWidth = 0
    THEN {<<0, 0>>}
    ELSE {<<sourceImage.naturalWidth, sourceImage.naturalHeight>>,
          <<sourceImage.naturalWidth \div 2, sourceImage.naturalHeight \div 2>>}

\* sx1, sy1, width, height of drawDetections: the pixel box times
\* scaleX = sourceImage.width / sourceImage.naturalWidth (scaleY likewise); a
\* division by 0 gives a value that is not finite
Part001BoxRect(box, display) ==
    [x |-> box[1] * display[1], y |-> box[2] * display[2],
     w |-> (box[3] - box[1]) * display[1], h |-> (box[4] - box[2]) * display[2],
     dx |-> sourceImage.naturalWidth, dy |-> sourceImage.naturalHeight]

\* the label background: fillRect(sx1, sy1 - 25, textWidth + 10, 25)
Part001LabelRect(box, display) ==
    [y |-> box[2] * display[2] - 25 * sourceImage.naturalHeight,
     h |-> 25 * sourceImage.naturalHeight,
     dy |-> sourceImage.naturalHeight]

\* getColor(label) for the lower-case class names of DetectionChoices
GetColor(label) ==
    CASE label = "person" -> "#FF5722"
      [] label = "car" -> "#00AEEF"
      [] label = "chair" -> "#C1D929"
      [] label = "book" -> "#E91E63"
      [] label = "bottle" -> "#9C27B0"
      [] OTHER -> "#FF9800"

\* what detections.forEach strokes and fills for a response to the payload sent
Part001Strokes(detections, sent, display) ==
    [i \in 1..Len(detections) |->
        [det |-> detections[i], sent |-> sent, color |-> GetColor(detections[i].class),
         rect |-> Part001BoxRect(detections[i].box, display),
         label |-> Part001LabelRect(detections[i].box, display)]]

\* avgConf of updateMetrics(data) with data.count = data.detections.length:
\* Math.round(avg * 100), or 0
UpdateMetrics(detections) ==
    IF Len(detections) > 0
    THEN 10 * Round(SumConfidence(detections), Len(detections))
    ELSE 0

\* handleFiles(files) with files[0] = f
Part001HandleFiles(f) ==
    /\ ~dropzoneHidden
    /\ IF f.type \in {"image/jpeg", "image/png"}
       THEN selectedFile' = f /\ analyzeHidden' = FALSE
       ELSE UNCHANGED <<selectedFile, analyzeHidden>>
    /\ lastEvent' = "handleFiles"
    /\ UNCHANGED <<dropzoneHidden, resultsAreaHidden, loaderHidden, srcLoading,
                   sourceImage, canvasWidth, canvasHeight, uploads, overlay,
                   detectionCount, avgConf>>
    /\ UNCHANGED vars

\* analyzeBtn click: processImage(selectedFile) up to await resizeImage(file); the
\* FileReader of the preview and resizeImage both start
Part001AnalyzeBtnClick ==
    /\ ~analyzeHidden
    /\ selectedFile # NoFile
    /\ BagCardinality(uploads) + 2 <= MaxUploads
    /\ dropzoneHidden' = TRUE
    /\ analyzeHidden' = TRUE
    /\ resultsAreaHidden' = FALSE
    /\ loaderHidden' = FALSE
    /\ uploads' = uploads
                  (+) SetToBag({[file |-> selectedFile, stage |-> "read",
                                 sent |-> [kind |-> "none", w |-> 0, h |-> 0]]})
                  (+) SetToBag({[file |-> selectedFile, stage |-> "resize",
                                 sent |-> [kind |-> "none", w |-> 0, h |-> 0]]})
    /\ lastEvent' = "processImage"
    /\ UNCHANGED <<selectedFile, srcLoading, sourceImage, canvasWidth, canvasHeight,
                   overlay, detectionCount, avgConf>>
    /\ UNCHANGED vars

\* reader.onload of processImage: sourceImage.src = the original file, which the
\* image then shows
ReaderOnload(u) ==
    /\ u \in Attempts
    /\ u.stage = "read"
    /\ uploads' = Remove(uploads, u)
    /\ sourceImage' = [naturalWidth |-> u.file.w, naturalHeight |-> u.file.h]
    /\ lastEvent' = "reader.onload"
    /\ UNCHANGED <<selectedFile, dropzoneHidden, analyzeHidden, resultsAreaHidden,
                   loaderHidden, srcLoading, canvasWidth, canvasHeight, overlay,
                   detectionCount, avgConf>>
    /\ UNCHANGED vars

\* await resizeImage(file) resolves and the /predict request is posted
Part001ResizeImageResolved(u, blob) ==
    /\ u \in Attempts
    /\ u.stage = "resize"
    /\ uploads' = Remove(uploads, u) (+) SetToBag({
            [file |-> u.file, stage |-> "predict",
             sent |-> Part001ResizeImage(u.file, MaxWidth, blob)]})
    /\ lastEvent' = "resizeImage"
    /\ UNCHANGED <<selectedFile, dropzoneHidden, analyzeHidden, resultsAreaHidden,
                   loaderHidden, srcLoading, sourceImage, canvasWidth, canvasHeight,
                   overlay, detectionCount, avgConf>>
    /\ UNCHANGED vars

\* the /predict response of attempt u is ok: drawDetections(data) with the canvas
\* sized to the display size of sourceImage, updateMetrics(data), finally
Part001PredictResponse(u, detections, display) ==
    /\ u \in Attempts
    /\ u.stage = "predict"
    /\ uploads' = Remove(uploads, u)
    /\ canvasWidth' = display[1]
    /\ canvasHeight' = display[2]
    /\ overlay' = SelectSeq(Part001Strokes(detections, u.sent, display),
                            LAMBDA e : Finite(e.rect))
    /\ detectionCount' = Len(detections)
    /\ avgConf' = UpdateMetrics(detections)
    /\ loaderHidden' = TRUE
    /\ lastEvent' = "drawDetections"
    /\ UNCHANGED <<selectedFile, dropzoneHidden, analyzeHidden, resultsAreaHidden,
                   srcLoading, sourceImage>>
    /\ UNCHANGED vars

\* fetch rejects, the response is not ok, or json() throws: catch and finally
Part001PredictFailed(u) ==
    /\ u \in Attempts
    /\ u.stage = "predict"
    /\ uploads' = Remove(uploads, u)
    /\ resultsAreaHidden' = TRUE
    /\ dropzoneHidden' = FALSE
    /\ analyzeHidden' = FALSE
    /\ loaderHidden' = TRUE
    /\ lastEvent' = "catch"
    /\ UNCHANGED <<selectedFile, srcLoading, sourceImage, canvasWidth, canvasHeight,
                   overlay, detectionCount, avgConf>>
    /\ UNCHANGED vars

\* resetBtn click
Part001ResetBtnClick ==
    /\ ~resultsAreaHidden
    /\ resultsAreaHidden' = TRUE
    /\ dropzoneHidden' = FALSE
    /\ sourceImage' = [naturalWidth |-> 0, naturalHeight |-> 0]
    /\ overlay' = <<>>
    /\ selectedFile' = NoFile
    /\ analyzeHidden' = TRUE
    /\ lastEvent' = "reset"
    /\ UNCHANGED <<loaderHidden, srcLoading, canvasWidth, canvasHeight, uploads,
                   detectionCount, avgConf>>
    /\ UNCHANGED vars

Part001Next ==
    \/ \E f \in FileChoices : Part001HandleFiles(f)
    \/ Part001AnalyzeBtnClick
    \/ \E u \in Attempts : ReaderOnload(u)
    \/ \E u \in Attempts, blob \in BOOLEAN : Part001ResizeImageResolved(u, blob)
    \/ \E u \in Attempts :
          \E detections \in PixelResponses(u.sent.w, u.sent.h), display \in DisplaySizes :
              Part001PredictResponse(u, detections, display)
    \/ \E u \in Attempts : Part001PredictFailed(u)
    \/ Part001ResetBtnClick

Part001 == Init /\ [][Part001Next]_allvars

(* ====================== the first dashboard ============================ *)
(* unnamed/part_000 lines 230-372: handleFile, detectObjects, drawDetections, *)
(* updateMetrics and resetApp of the version that posts the dropped file as   *)
(* it is and sizes the canvas when sourceImage has loaded.                    *)

\* what detections.forEach strokes: strokeRect(x1, y1, x2 - x1, y2 - y1) in pixels
Part000Strokes(detections, sent) ==
    [i \in 1..Len(detections) |->
        [det |-> detections[i], sent |-> sent,
         rect |-> [x |-> detections[i].box[1], y |-> detections[i].box[2],
                   w |-> detections[i].box[3] - detections[i].box[1],
                   h |-> detections[i].box[4] - detections[i].box[2],
                   dx |-> 1, dy |-> 1]]]

\* a drop or a change of fileInput with files[0] = f: handleFile(f) up to
\* reader.readAsDataURL(file)
Part000HandleFile(f) ==
    /\ ~dropzoneHidden
    /\ BagCardinality(uploads) < MaxUploads
    /\ IF f.type \in {"image/jpeg", "image/png"}
       THEN uploads' = uploads (+) SetToBag({[file |-> f, stage |-> "read",
                                              sent |-> [kind |-> "none", w |-> 0, h |-> 0]]})
       ELSE UNCHANGED uploads
    /\ lastEvent' = "handleFile"
    /\ UNCHANGED <<selectedFile, dropzoneHidden, analyzeHidden, resultsAreaHidden,
                   loaderHidden, srcLoading, sourceImage, canvasWidth, canvasHeight,
                   overlay, detectionCount, avgConf>>
    /\ UNCHANGED vars

\* reader.onload of handleFile: sourceImage starts to load the file, the results
\* area and the loader are shown and detectObjects(file) posts the file
Part000ReaderOnload(u) ==
    /\ u \in Attempts
    /\ u.stage = "read"
    /\ srcLoading' = u.file
    /\ dropzoneHidden' = TRUE
    /\ resultsAreaHidden' = FALSE
    /\ loaderHidden' = FALSE
    /\ uploads' = Remove(uploads, u) (+) SetToBag({
            [file |-> u.file, stage |-> "predict",
             sent |-> [kind |-> "original", w |-> u.file.w, h |-> u.file.h]]})
    /\ lastEvent' = "reader.onload"
    /\ UNCHANGED <<selectedFile, analyzeHidden, sourceImage, canvasWidth, canvasHeight,
                   overlay, detectionCount, avgConf>>
    /\ UNCHANGED vars

\* sourceImage.onload: the canvas takes the natural size of the image, which
\* clears it
Part000SourceImageOnload ==
    /\ srcLoading # NoFile
    /\ srcLoading' = NoFile
    /\ sourceImage' = [naturalWidth |-> srcLoading.w, naturalHeight |-> srcLoading.h]
    /\ canvasWidth' = srcLoading.w
    /\ canvasHeight' = srcLoading.h
    /\ overlay' = <<>>
    /\ lastEvent' = "onload"
    /\ UNCHANGED <<selectedFile, dropzoneHidden, analyzeHidden, resultsAreaHidden,
                   loaderHidden, uploads, detectionCount, avgConf>>
    /\ UNCHANGED vars

\* the response of attempt u is ok: drawDetections(data.detections),
\* updateMetrics(data.detections), finally
Part000PredictResponse(u, detections) ==
    /\ u \in Attempts
    /\ u.stage = "predict"
    /\ uploads' = Remove(uploads, u)
    /\ overlay' = Part000Strokes(detections, u.sent)
    /\ detectionCount' = Len(detections)
    /\ avgConf' = UpdateMetrics(detections)
    /\ loaderHidden' = TRUE
    /\ lastEvent' = "drawDetections"
    /\ UNCHANGED <<selectedFile, dropzoneHidden, analyzeHidden, resultsAreaHidden,
                   srcLoading, sourceImage, canvasWidth, canvasHeight>>
    /\ UNCHANGED vars

\* fetch rejects, the response is not ok, or json() throws: catch and finally
Part000PredictFailed(u) ==
    /\ u \in Attempts
    /\ u.stage = "predict"
    /\ uploads' = Remove(uploads, u)
    /\ loaderHidden' = TRUE
    /\ lastEvent' = "catch"
    /\ UNCHANGED <<selectedFile, dropzoneHidden, analyzeHidden, resultsAreaHidden,
                   srcLoading, sourceImage, canvasWidth, canvasHeight, overlay,
                   detectionCount, avgConf>>
    /\ UNCHANGED vars

\* resetBtn click: resetApp()
ResetApp ==
    /\ ~resultsAreaHidden
    /\ resultsAreaHidden' = TRUE
    /\ dropzoneHidden' = FALSE
    /\ overlay' = <<>>
    /\ lastEvent' = "reset"
    /\ UNCHANGED <<selectedFile, analyzeHidden, loaderHidden, srcLoading, sourceImage,
                   canvasWidth, canvasHeight, uploads, detectionCount, avgConf>>
    /\ UNCHANGED vars

Part000Next ==
    \/ \E f \in FileChoices : Part000HandleFile(f)
    \/ \E u \in Attempts : Part000ReaderOnload(u)
    \/ Part000SourceImageOnload
    \/ \E u \in Attempts :
          \E detections \in PixelResponses(u.sent.w, u.sent.h) :
              Part000PredictResponse(u, detections)
    \/ \E u \in Attempts : Part000PredictFailed(u)
    \/ ResetApp

Part000 == Init /\ [][Part000Next]_allvars

(* ----------------------- claims on the dashboard ----------------------- *)

\* C16: drawDetections strokes one rectangle for every detection of the response,
\* and for a normalized box (x1, y1, x2, y2) on a canvas of size (W, H) its corners
\* are (x1 * W, y1 * H) and (x2 * W, y2 * H); every rectangle on the canvas keeps
\* these corners for the size the canvas has.
C16_NormalizedCorners ==
    /\ [](\A i \in 1..Len(overlay) :
            LET r == overlay[i].rect
                b == overlay[i].det.box
            IN  /\ Finite(r)
                /\ r.x * Grid = b[1] * canvasWidth * r.dx
                /\ r.y * Grid = b[2] * canvasHeight * r.dy
                /\ (r.x + r.w) * Grid = b[3] * canvasWidth * r.dx
                /\ (r.y + r.h) * Grid = b[4] * canvasHeight * r.dy)
    /\ [][\A u \in Attempts, d \in Responses :
             PredictResponse(u, d, Untold(d))
                 => /\ Len(overlay') = Len(overlay) + Len(d)
                    /\ \A i \in 1..Len(d) : overlay'[Len(overlay) + i].det = d[i]]_dash

\* C16 witness: the box (1/4, 1/4, 3/4, 2/4) is on a 1280 x 481 canvas with
\* corners (320, 120.25) and (960, 240.5), held in quarters of a pixel.
C16_Witness ==
    /\ canvasWidth = 1280
    /\ canvasHeight = 481
    /\ \E i \in 1..Len(overlay) :
          /\ overlay[i].det.box = <<1, 1, 3, 2>>
          /\ overlay[i].rect.x = 1280 /\ overlay[i].rect.y = 481
          /\ overlay[i].rect.x + overlay[i].rect.w = 3840
          /\ overlay[i].rect.y + overlay[i].rect.h = 962

\* C17: a box given in pixels of the analyzed image of size (w, h), the image that
\* was posted to the backend, is drawn on a canvas of size (W, H) with left edge
\* x1 * W / w and top edge y1 * H / h, and its far corner likewise.
C17_PixelFrameScale ==
    \A i \in 1..Len(overlay) :
        LET r == overlay[i].rect
            b == overlay[i].det.box
            a == overlay[i].sent
        IN  /\ r.x * a.w = b[1] * canvasWidth * r.dx
            /\ r.y * a.h = b[2] * canvasHeight * r.dy
            /\ (r.x + r.w) * a.w = b[3] * canvasWidth * r.dx
            /\ (r.y + r.h) * a.h = b[4] * canvasHeight * r.dy

\* C18: drawDetections completes normally only when sourceImage has pixel
\* dimensions: with a natural width or height of 0 the attempt ends in the error
\* path instead.
C18_UnknownFrameFails ==
    lastEvent = "drawDetections"
        => sourceImage.naturalWidth > 0 /\ sourceImage.naturalHeight > 0

\* C19: every rectangle stroked on the canvas has x1 <= x2 and y1 <= y2 after
\* mapping, that is a width and a height that are not negative.
C19_OrderedCorners ==
    \A i \in 1..Len(overlay) :
        overlay[i].rect.w >= 0 /\ overlay[i].rect.h >= 0

\* C20: the payload posted to /predict is the original file exactly when its width
\* is at most the target and its byte size is below 1 MiB; a re-encoded payload has
\* the target as its width.
C20_PreprocessPolicy ==
    \A u \in Attempts :
        u.stage = "predict"
            => /\ u.sent.kind = "original"
                    <=> (u.file.w <= TargetWidth /\ u.file.size < MiB)
               /\ u.sent.kind = "resized" => u.sent.w = TargetWidth

\* C21: when the encoder yields no blob, no /predict request is posted for the
\* attempt: no request in flight carries the placeholder built from the null blob.
C21_NoPlaceholderPayload ==
    \A u \in Attempts : u.stage = "predict" => u.sent.kind # "null"

\* C22: after the catch block of a failed detection request the loader is hidden,
\* the dropzone and the analyze control are shown and the results area is hidden.
C22_FailureRestoresDashboard ==
    lastEvent = "catch"
        => /\ loaderHidden
           /\ ~dropzoneHidden
           /\ ~analyzeHidden
           /\ resultsAreaHidden

\* C24: while a submit-review request is in flight, the verify and flag-incorrect
\* controls are disabled and the submit-correction control cannot be used.
C24_ControlsOffWhileSubmitting ==
    reqs # EmptyBag
        => /\ btnVerifyDisabled
           /\ btnWrongDisabled
           /\ ~SubmitCorrectionClickable

\* C25: a flag-incorrect click posts nothing, leaves the queue, the cursor, the
\* decisions and every control but the correction panel as they were, and reveals
\* the correction panel: from AwaitingDecision on an item it enters
\* CorrectionPending on the same item.
C25_FlagOnlyRevealsPanel ==
    [][BtnWrongClick
          => /\ UNCHANGED <<tab, reviewQueue, currentReviewIndex, loads, reqs, decided,
                            reviewFilename, reviewImage, btnVerifyDisabled,
                            btnWrongDisabled>>
             /\ ~correctionPanelHidden'
             /\ \A k \in 1..Len(ItemNames) :
                   AwaitingDecision(ItemNames[k]) => CorrectionPending(ItemNames[k])']_vars

\* C25 witness: the first item of a loaded queue was flagged; nothing is in flight
\* and the session is CorrectionPending on it at cursor 0.
C25_Witness ==
    /\ hist = <<"activate", "loaded", "flag">>
    /\ Len(reviewQueue) > 0
    /\ currentReviewIndex = 0
    /\ reqs = EmptyBag
    /\ loads = 0
    /\ CorrectionPending(reviewQueue[1])

\* C26: after a render call the canvas holds the boxes of that call only.
C26_RenderClearsFirst ==
    lastEvent = "drawDetections" => Len(overlay) = detectionCount

\* C27: a resized payload is as wide as the target and its height is h * target / w
\* rounded to the nearest integer.
C27_RoundedDimensions ==
    \A u \in Attempts :
        (u.stage = "predict" /\ u.sent.kind = "resized")
            => /\ u.sent.w = TargetWidth
               /\ u.sent.h = Round(u.file.h * TargetWidth, u.file.w)

\* sizes on which the resize functions are compared with themselves
SampleWidths == {1, 320, 639, 640, 641, 1023, 1024, 1025, 1280, 4000}
SampleHeights == {1, 240, 481, 1200, 3001}

\* the size of a payload, as a file to resize again
AsFile(p) == [type |-> "image/jpeg", w |-> p.w, h |-> p.h, size |-> MiB + 1]

\* resizing the payload p again with the same target gives its size back
SameSizeAgain(p) ==
    /\ ResizeImage(AsFile(p), TargetWidth, TRUE).w = p.w
    /\ ResizeImage(AsFile(p), TargetWidth, TRUE).h = p.h

\* C28: preprocessing is idempotent in dimensions: every payload posted to /predict,
\* and the resizeImage output (of script.js with target 640, of part_001 with
\* maxWidth 1024) for every sample size, is given back with the same width and
\* height when it is resized again with the same target.
C28_ResizeIdempotent ==
    /\ \A u \in Attempts :
          (u.stage = "predict" /\ u.sent.kind # "null") => SameSizeAgain(u.sent)
    /\ \A w \in SampleWidths, h \in SampleHeights :
          LET f == [type |-> "image/jpeg", w |-> w, h |-> h, size |-> MiB + 1]
              p == Part001ResizeImage(f, MaxWidth, TRUE)
          IN  /\ SameSizeAgain(ResizeImage(f, TargetWidth, TRUE))
              /\ Part001ResizeImage(AsFile(p), MaxWidth, TRUE).w = p.w
              /\ Part001ResizeImage(AsFile(p), MaxWidth, TRUE).h = p.h

\* C28 witness: a 1280 x 481 file was downsized to 640 x 240 and posted.
C28_Witness ==
    \E u \in Attempts :
        /\ u.stage = "predict"
        /\ u.file.w = 1280
        /\ u.sent.kind = "resized"
        /\ u.sent.w = 640 /\ u.sent.h = 240

\* the mean of the confidences of a detection set, in tenths of a percent, rounded
MeanConfidence(detections) ==
    IF detections = <<>> THEN 0
    ELSE Round(10 * SumConfidence(detections), Len(detections))

\* C23: after every render call with detection set d the count read-out is the
\* number of detections of d and the average read-out is their mean confidence; for
\* an empty d both are 0 and the canvas holds no box.
C23_ReadoutsMatchRender ==
    [][\A u \in Attempts, d \in Responses :
          PredictResponse(u, d, Untold(d))
              => /\ detectionCount' = Len(d)
                 /\ avgConf' = MeanConfidence(d)
                 /\ d = <<>> => (detectionCount' = 0 /\ avgConf' = 0 /\ overlay' = <<>>)]_dash

\* C29: a label background on the canvas either ends at the top edge of its box, or
\* would then start above the canvas and starts at the top edge of the box instead;
\* for a box whose top is not negative it does not start at a negative y.
C29_LabelOnCanvas ==
    \A i \in 1..Len(overlay) :
        LET r == overlay[i].rect
            l == overlay[i].label
        IN  /\ \/ (l.y + l.h) * r.dy = r.y * l.dy
               \/ (r.y * l.dy - l.h * r.dy < 0 /\ l.y * r.dy = r.y * l.dy)
            /\ r.y >= 0 => l.y >= 0

\* C30: two boxes on the canvas whose detections have the same class have the same
\* color.
C30_ColorByClass ==
    \A i, j \in 1..Len(overlay) :
        overlay[i].det.class = overlay[j].det.class
            => overlay[i].color = overlay[j].color

\* C31: every submit-review request in flight names an item of a queue: its
\* filename is reviewQueue[currentReviewIndex] for a cursor inside the queue at the
\* click, never undefined.
C31_RequestNamesQueueItem ==
    \A x \in InFlight : x.path # Undefined

\* C32: the response of an earlier upload changes nothing shown for a later one:
\* when the canvas has the size of another image than the one attempt u posted, u
\* is an earlier upload, and the step that handles its response leaves the boxes
\* on the canvas and the count and average read-outs as they are.
C32_LateResponseIgnored ==
    [][\A u \in Attempts, d \in Responses :
          (/\ PredictResponse(u, d, Untold(d))
           /\ <<u.file.w, u.file.h>> # <<canvasWidth, canvasHeight>>)
              => UNCHANGED <<overlay, detectionCount, avgConf>>]_dash

\* C33: the canvas is sized from the loaded image before the detections of an
\* upload are drawn and is not sized again afterwards: a response is drawn when no
\* image load is pending, on a canvas that has the size of the image posted, and
\* the image-load callback never sizes a canvas that holds boxes.
C33_SizedBeforeDrawn ==
    [][/\ \A u \in Attempts :
             \A d \in PixelResponses(u.sent.w, u.sent.h) :
                 Part000PredictResponse(u, d)
                     => /\ srcLoading = NoFile
                        /\ <<canvasWidth, canvasHeight>> = <<u.file.w, u.file.h>>
       /\ Part000SourceImageOnload => overlay = <<>>]_dash

\* C34: when the image load, the resize and the response of every attempt each
\* occur, well or with an error, a loader that is shown is eventually hidden.
C34_LoaderEventuallyHidden == ~loaderHidden ~> loaderHidden

====
